---- MODULE Spec2Model ----
(***************************************************************************)
(* Model of alphapulldown/analysis_pipeline/get_good_inter_pae.py: the     *)
(* batch loop of main and the functions it calls.  One job directory is    *)
(* processed at a time; what a step reads from the job directory is drawn  *)
(* when the step reads it (the program never writes into a job directory,  *)
(* so a fact read twice is kept in a variable).                            *)
(*                                                                         *)
(* Python values are written as strings where the code mixes types:        *)
(* "None" is the string sentinel of the code, "pDockQ"/"mpDockQ" the       *)
(* number a regression formula returned.                                   *)
(* An exception that nothing catches ends main: pc = "aborted".            *)
(***************************************************************************)
EXTENDS Integers, Sequences, FiniteSets, TLC

\* ---- bounds of the model ------------------------------------------------
MaxJobs == 2        \* job directories listed in output_dir
MaxDim  == 3        \* residues of a model (dimension of the PAE matrix)
MaxLow  == 1        \* residue pairs of a PAE matrix that differ from HighPae
MaxPairs == 2       \* template/chain pairs given to create_db
MaxOldRecords == 1  \* records of a pdb_seqres.txt left by an earlier run

\* ---- program constants --------------------------------------------------
MaskValue     == 50     \* written into the intra-chain blocks
DefaultCutoff == 5      \* default of --cutoff

\* cutoffs a run may be given: the default and one above the mask value
Cutoffs == {DefaultCutoff, MaskValue + 1}
\* PAE values of a matrix cell: 60 everywhere but for at most MaxLow residue
\* pairs, which hold a value below every cutoff
HighPae   == 60
LowValues == {1}

\* ---- inputs -------------------------------------------------------------
RECURSIVE SubsetsUpTo(_, _)
SubsetsUpTo(S, k) ==
    IF k = 0 THEN {{}}
    ELSE LET prev == SubsetsUpTo(S, k - 1)
         IN  prev \cup {p \cup {x} : p \in prev, x \in S}

\* the error matrices of n residues (symmetric: a pair has one value)
MatricesOfDim(n) ==
    LET pairs == { p \in (1..n) \X (1..n) : p[1] <= p[2] }
        Pair(r, c) == IF r <= c THEN <<r, c>> ELSE <<c, r>>
    IN  UNION { { [r \in 1..n |-> [c \in 1..n |->
                      IF Pair(r, c) \in S THEN g[Pair(r, c)] ELSE HighPae]]
                  : g \in [S -> LowValues] }
                : S \in SubsetsUpTo(pairs, MaxLow) }

Matrices == UNION { MatricesOfDim(n) : n \in 1..MaxDim }

\* ordered chain lengths (each >= 1) that sum to n
RECURSIVE Compositions(_)
Compositions(n) ==
    IF n = 0 THEN {<<>>}
    ELSE UNION { { <<k>> \o rest : rest \in Compositions(n - k) } : k \in 1..n }

\* what PPBuilder can give for a model of n residues: the chains of the
\* model in file order, or nothing at all (no parsable chain)
ChainLayouts(n) == Compositions(n) \cup {<<>>}

RECURSIVE SumSeq(_)
SumSeq(s) == IF s = <<>> THEN 0 ELSE Head(s) + SumSeq(Tail(s))

\* ---- examine_inter_pae --------------------------------------------------
\* variant: the slice names the rows only (pae_mtx[old:new] = 50), so the
\* whole row band of a chain is overwritten
RECURSIVE MaskBlocks_rows(_, _, _)
MaskBlocks_rows(pae_mtx, seq_lengths, old_lenth) ==
    IF seq_lengths = <<>> THEN pae_mtx
    ELSE LET new_length == old_lenth + Head(seq_lengths)
             written == [r \in DOMAIN pae_mtx |-> [c \in DOMAIN pae_mtx[r] |->
                            IF old_lenth < r /\ r <= new_length
                            THEN MaskValue ELSE pae_mtx[r][c]]]
         IN  MaskBlocks_rows(written, Tail(seq_lengths), new_length)

\* the loop of lines 28-32, on the array it was given (numpy slices write
\* through to the caller's array)
RECURSIVE MaskBlocks(_, _, _)
MaskBlocks(pae_mtx, seq_lengths, old_lenth) ==
    IF seq_lengths = <<>> THEN pae_mtx
    ELSE LET new_length == old_lenth + Head(seq_lengths)
             written == [r \in DOMAIN pae_mtx |-> [c \in DOMAIN pae_mtx[r] |->
                            IF /\ old_lenth < r /\ r <= new_length
                               /\ old_lenth < c /\ c <= new_length
                            THEN MaskValue ELSE pae_mtx[r][c]]]
         IN  MaskBlocks(written, Tail(seq_lengths), new_length)

\* result of the call: the array after the call and the returned flag
examine_inter_pae(mtx, seq_lens, cut) ==
    LET masked == MaskBlocks(mtx, seq_lens, 0)
    IN  [ mtx   |-> masked,
          check |-> \E r \in DOMAIN masked : \E c \in DOMAIN masked[r] :
                        masked[r][c] < cut ]

\* ---- obtain_mpdockq -----------------------------------------------------
\* variant: the two-chain test is a second `if` on num_chains >= 2, so a
\* multimer runs both formulas
obtain_mpdockq_both(complex_score, num_chains) ==
    IF complex_score # "None" /\ num_chains > 2
    THEN [ value |-> "pDockQ",
           formulas |-> {"calculate_mpDockQ", "read_pdb_pdockq", "calc_pdockq"} ]
    ELSE IF complex_score # "None" /\ num_chains = 2
    THEN [ value |-> "pDockQ", formulas |-> {"read_pdb_pdockq", "calc_pdockq"} ]
    ELSE [ value |-> "None", formulas |-> {} ]

\* variant: the multimer branch does not test complex_score against None
obtain_mpdockq_nonone(complex_score, num_chains) ==
    IF num_chains > 2
    THEN [ value |-> "mpDockQ", formulas |-> {"calculate_mpDockQ"} ]
    ELSE IF complex_score # "None" /\ num_chains = 2
    THEN [ value |-> "pDockQ", formulas |-> {"read_pdb_pdockq", "calc_pdockq"} ]
    ELSE [ value |-> "None", formulas |-> {} ]

\* lines 46-52: the value returned and the regression formulas that ran
obtain_mpdockq(complex_score, num_chains) ==
    IF complex_score # "None" /\ num_chains > 2
    THEN [ value |-> "mpDockQ", formulas |-> {"calculate_mpDockQ"} ]
    ELSE IF complex_score # "None" /\ num_chains = 2
    THEN [ value |-> "pDockQ", formulas |-> {"read_pdb_pdockq", "calc_pdockq"} ]
    ELSE [ value |-> "None", formulas |-> {} ]

\* ---- obtain_pae_and_iptm ------------------------------------------------
\* ranking_iptm: the entry of the iptm mapping, or "absent" without mapping.
\* Gives the exception raised ("none" when it returns), the artifact the
\* matrix came from and whether iptm_score is read from the pickle.
obtain_pae_and_iptm(ranking_iptm, json, pkl, gz) ==
    LET iptm0 == IF ranking_iptm # "absent" THEN ranking_iptm ELSE "None"
    IN  IF json
        THEN [ exc |-> "none", source |-> "json", iptm |-> iptm0 ]
        ELSE IF iptm0 = "None"
        THEN IF pkl
             THEN [ exc |-> "none", source |-> "pkl", iptm |-> "pickle" ]
             ELSE IF gz
             THEN [ exc |-> "none", source |-> "pkl.gz", iptm |-> "pickle" ]
             \* gzip.open raises inside the except clause, then the finally
             \* clause reads the unbound check_dict
             ELSE [ exc |-> "UnboundLocalError", source |-> "none", iptm |-> iptm0 ]
        \* nothing assigned pae_mtx: the return statement reads it unbound
        ELSE [ exc |-> "UnboundLocalError", source |-> "none", iptm |-> iptm0 ]

IptmEntries    == {"0.8"}
PickleIptm     == "0.7"
IptmPtmEntry   == "0.9"
ComplexScores  == {"None", "score"}
NoMtx          == <<>>

VARIABLES
    cutoff,                     \* FLAGS.cutoff
    njobs,                      \* len(jobs)
    job,                        \* position of the loop variable, 0 before the loop
    pc,                         \* where main is
    exc,                        \* [type, in] of the exception that ended main
    good_jobs, iptm_ptm, iptm, mpDockq_scores,
    average_interface_paes, average_interface_plddts,
    count,
    ranking_exists,             \* ranking_debug.json is in the job directory
    pdb_exists,                 \* ranked_0.pdb is in the job directory
    ranking_iptm,               \* data['iptm'][best_model], or "absent"
    iptm_ptm_score, pae_mtx, iptm_score, seq_lengths, check, mpDockq_score,
    \* history of the current job
    artifacts,                  \* which of json, pkl, pkl.gz exist, and
    pae_source,                 \* the artifact the matrix was read from: what
                                \* obtain_pae_and_iptm saw, kept until the next
                                \* statement of main has run
    pae_loaded,                 \* the matrix as read from the artifact
    analysed_mtx,               \* the matrix handed to pdb_analyser
    calls,                      \* functions invoked for the current job
    formulas,                   \* regression formulas run by obtain_mpdockq
    scored,                     \* [complex_score, num_chains] seen by obtain_mpdockq
    \* history of the run
    processed,                  \* per finished job: [job, status, check]
    output,                     \* what main did after the loop
    \* create_custom_template_db.py: create_db and the directories under out_path
    db_pc,                      \* where create_db is ("idle": not running)
    pairs,                      \* zip(templates, chains), as [code, chain]
    ndone,                      \* pairs the loop of create_db has finished
    pdb_mmcif_dir,              \* a directory is [exists, files]: whether it
    mmcif_dir,                  \* exists and the names of its entries
    seqres_dir,
    templates_dir,
    pdb_seqres,                 \* records of pdb_seqres/pdb_seqres.txt, in order
    db_before                   \* mmcif files and seqres records before the run

locals == <<ranking_exists, pdb_exists, ranking_iptm, iptm_ptm_score, pae_mtx, iptm_score,
            seq_lengths, check, mpDockq_score>>
jobhist == <<artifacts, pae_source, pae_loaded, analysed_mtx, calls, formulas, scored>>
accs == <<good_jobs, iptm_ptm, iptm, mpDockq_scores,
          average_interface_paes, average_interface_plddts>>
mainvars == <<cutoff, njobs, job, pc, exc, accs, count, locals, jobhist, processed, output>>
dbvars == <<db_pc, pairs, ndone, pdb_mmcif_dir, mmcif_dir, seqres_dir, templates_dir,
            pdb_seqres, db_before>>
vars == <<mainvars, dbvars>>

NoDir == [exists |-> FALSE, files |-> {}]
\* create_db is not running
DbIdle ==
    /\ db_pc = "idle"
    /\ pairs = <<>>
    /\ ndone = 0
    /\ pdb_mmcif_dir = NoDir /\ mmcif_dir = NoDir
    /\ seqres_dir = NoDir /\ templates_dir = NoDir
    /\ pdb_seqres = <<>>
    /\ db_before = [files |-> {}, records |-> <<>>]

NoExc == [type |-> "none", in |-> "none"]
NoArtifacts == [json |-> FALSE, pkl |-> FALSE, gz |-> FALSE]
NoScored == [complex_score |-> "None", num_chains |-> 0]

\* names bound in one iteration are assigned before they are read in the
\* next, so they are cleared when an iteration ends
ClearJob ==
    /\ ranking_exists' = FALSE
    /\ pdb_exists' = FALSE
    /\ ranking_iptm' = "absent"
    /\ iptm_ptm_score' = "unset"
    /\ pae_mtx' = NoMtx
    /\ iptm_score' = "unset"
    /\ seq_lengths' = <<>>
    /\ check' = FALSE
    /\ mpDockq_score' = "unset"
    /\ artifacts' = NoArtifacts
    /\ pae_source' = "none"
    /\ pae_loaded' = NoMtx
    /\ analysed_mtx' = NoMtx
    /\ calls' = {}
    /\ formulas' = {}
    /\ scored' = NoScored

Raise(type, where) ==
    /\ pc' = "aborted"
    /\ exc' = [type |-> type, in |-> where]

Init ==
    /\ cutoff \in Cutoffs
    /\ njobs \in 0..MaxJobs
    /\ job = 0
    /\ pc = "loop"
    /\ exc = NoExc
    /\ good_jobs = <<>> /\ iptm_ptm = <<>> /\ iptm = <<>>
    /\ mpDockq_scores = <<>>
    /\ average_interface_paes = <<>> /\ average_interface_plddts = <<>>
    /\ count = 0
    /\ ranking_exists = FALSE
    /\ pdb_exists = FALSE
    /\ ranking_iptm = "absent"
    /\ iptm_ptm_score = "unset"
    /\ pae_mtx = NoMtx
    /\ iptm_score = "unset"
    /\ seq_lengths = <<>>
    /\ check = FALSE
    /\ mpDockq_score = "unset"
    /\ artifacts = NoArtifacts
    /\ pae_source = "none"
    /\ pae_loaded = NoMtx
    /\ analysed_mtx = NoMtx
    /\ calls = {}
    /\ formulas = {}
    /\ scored = NoScored
    /\ processed = <<>>
    /\ output = "none"
    /\ DbIdle

\* variant: the body of the loop is entered without the isfile test
NextJob_noisfile ==
    /\ UNCHANGED dbvars
    /\ pc = "loop"
    /\ job < njobs
    /\ job' = job + 1
    /\ \E has_ranking \in BOOLEAN : ranking_exists' = has_ranking
    /\ pc' = "ctor"
    /\ UNCHANGED <<cutoff, njobs, exc, accs, count, pdb_exists, ranking_iptm,
                   iptm_ptm_score, pae_mtx, iptm_score, seq_lengths, check,
                   mpDockq_score, jobhist, processed, output>>

\* lines 174-176: take the next job; without ranking_debug.json the body of
\* the if is not entered and the loop takes the next job
NextJob ==
    /\ UNCHANGED dbvars
    /\ pc = "loop"
    /\ job < njobs
    /\ job' = job + 1
    /\ \E has_ranking \in BOOLEAN :
         /\ ranking_exists' = has_ranking
         /\ IF has_ranking
            THEN /\ pc' = "ctor"
                 /\ UNCHANGED processed
            ELSE /\ pc' = "loop"
                 /\ processed' = Append(processed,
                        [job |-> job + 1, status |-> "SKIPPED", check |-> FALSE])
    /\ UNCHANGED <<cutoff, njobs, exc, accs, count, pdb_exists, ranking_iptm,
                   iptm_ptm_score, pae_mtx, iptm_score, seq_lengths, check,
                   mpDockq_score, jobhist, output>>

\* lines 177-178: PDBAnalyser(.../ranked_0.pdb); count = count + 1.
\* The class is defined outside these sources: on a missing file its
\* constructor may or may not raise.
PDBAnalyserRaises(has_pdb) == IF has_pdb THEN {FALSE} ELSE {FALSE, TRUE}

ConstructAnalyser ==
    /\ UNCHANGED dbvars
    /\ pc = "ctor"
    /\ \E has_pdb \in BOOLEAN : \E raises \in PDBAnalyserRaises(has_pdb) :
         /\ pdb_exists' = has_pdb
         /\ calls' = calls \cup {"PDBAnalyser"}
         /\ IF raises
            THEN /\ Raise("FileNotFoundError", "PDBAnalyser")
                 /\ UNCHANGED count
            ELSE /\ pc' = "ranking"
                 /\ count' = count + 1
                 /\ UNCHANGED exc
    /\ UNCHANGED <<cutoff, njobs, job, accs, ranking_exists, ranking_iptm,
                   iptm_ptm_score, pae_mtx,
                   iptm_score, seq_lengths, check, mpDockq_score,
                   artifacts, pae_source, pae_loaded, analysed_mtx, formulas,
                   scored, processed, output>>

\* lines 180-185: best_model, data, and the combined score of the best model
ReadRanking ==
    /\ UNCHANGED dbvars
    /\ pc = "ranking"
    /\ \E entry \in IptmEntries \cup {"absent"} : \E has_iptm_ptm \in BOOLEAN :
         /\ ranking_iptm' = entry
         /\ IF entry = "absent" /\ ~has_iptm_ptm
            THEN \* line 184 is false: nothing more is done for the job
                 /\ pc' = "done"
                 /\ UNCHANGED <<exc, iptm_ptm_score>>
            ELSE IF has_iptm_ptm
            THEN /\ iptm_ptm_score' = IptmPtmEntry
                 /\ pc' = "pae"
                 /\ UNCHANGED exc
            ELSE \* data['iptm+ptm'] on a file that has only 'iptm'
                 /\ Raise("KeyError", "main")
                 /\ UNCHANGED iptm_ptm_score
    /\ UNCHANGED <<cutoff, njobs, job, accs, count, ranking_exists, pdb_exists, pae_mtx,
                   iptm_score, seq_lengths, check, mpDockq_score,
                   jobhist, processed, output>>

\* lines 186-187 and 116-146
ObtainPaeAndIptm ==
    /\ UNCHANGED dbvars
    /\ pc = "pae"
    /\ \E json \in BOOLEAN, pkl \in BOOLEAN, gz \in BOOLEAN :
         LET res == obtain_pae_and_iptm(ranking_iptm, json, pkl, gz)
         IN  /\ artifacts' = [json |-> json, pkl |-> pkl, gz |-> gz]
             /\ calls' = calls \cup {"obtain_pae_and_iptm"}
             /\ pae_source' = res.source
             /\ IF res.exc = "none"
                THEN /\ \E m \in Matrices :
                          /\ pae_mtx' = m
                          /\ pae_loaded' = m
                     /\ iptm_score' = IF res.iptm = "pickle" THEN PickleIptm
                                      ELSE res.iptm
                     /\ pc' = "seqlen"
                     /\ UNCHANGED exc
                ELSE /\ Raise(res.exc, "obtain_pae_and_iptm")
                     /\ UNCHANGED <<pae_mtx, pae_loaded, iptm_score>>
    /\ UNCHANGED <<cutoff, njobs, job, accs, count, ranking_exists, pdb_exists,
                   ranking_iptm,
                   iptm_ptm_score, seq_lengths, check, mpDockq_score,
                   analysed_mtx, formulas, scored, processed, output>>

\* lines 188 and 149-163
ObtainSeqLengths ==
    /\ UNCHANGED dbvars
    /\ pc = "seqlen"
    /\ calls' = calls \cup {"obtain_seq_lengths"}
    /\ IF ~pdb_exists
       THEN /\ Raise("FileNotFoundError", "obtain_seq_lengths")
            /\ UNCHANGED seq_lengths
       ELSE /\ \E lens \in ChainLayouts(Len(pae_mtx)) : seq_lengths' = lens
            /\ pc' = "examine"
            /\ UNCHANGED exc
    /\ artifacts' = NoArtifacts
    /\ pae_source' = "none"
    /\ UNCHANGED <<cutoff, njobs, job, accs, count, ranking_exists, pdb_exists,
                   ranking_iptm,
                   iptm_ptm_score, pae_mtx, iptm_score, check, mpDockq_score,
                   pae_loaded, analysed_mtx, formulas,
                   scored, processed, output>>

\* lines 189-190 and 26-35
ExamineInterPae ==
    /\ UNCHANGED dbvars
    /\ pc = "examine"
    /\ LET res == examine_inter_pae(pae_mtx, seq_lengths, cutoff)
       IN  /\ pae_mtx' = res.mtx
           /\ check' = res.check
    /\ calls' = calls \cup {"examine_inter_pae"}
    /\ pc' = "mpdockq"
    /\ UNCHANGED <<cutoff, njobs, job, exc, accs, count, ranking_exists, pdb_exists,
                   ranking_iptm,
                   iptm_ptm_score, iptm_score, seq_lengths, mpDockq_score,
                   artifacts, pae_source, pae_loaded, analysed_mtx, formulas,
                   scored, processed, output>>

\* lines 191-192 and 38-53.  read_pdb and score_complex are defined outside
\* these sources: the chains are those of ranked_0.pdb, the composite score
\* is None or a number, and read_pdb may raise on a file without chains.
ReadPdbRaises(chains) == IF chains = <<>> THEN {FALSE, TRUE} ELSE {FALSE}

ObtainMpdockq ==
    /\ UNCHANGED dbvars
    /\ pc = "mpdockq"
    /\ calls' = calls \cup {"obtain_mpdockq"}
    /\ \E raises \in ReadPdbRaises(seq_lengths) :
         IF raises
         THEN /\ Raise("ValueError", "obtain_mpdockq")
              /\ UNCHANGED <<mpDockq_score, formulas, scored>>
         ELSE \E complex_score \in ComplexScores :
                LET num_chains == Len(seq_lengths)
                    res == obtain_mpdockq(complex_score, num_chains)
                IN  /\ mpDockq_score' = res.value
                    /\ formulas' = res.formulas
                    /\ scored' = [complex_score |-> complex_score,
                                  num_chains |-> num_chains]
                    /\ pc' = "check"
                    /\ UNCHANGED exc
    /\ UNCHANGED <<cutoff, njobs, job, accs, count, ranking_exists, pdb_exists,
                   ranking_iptm,
                   iptm_ptm_score, pae_mtx, iptm_score, seq_lengths, check,
                   artifacts, pae_source, pae_loaded, analysed_mtx,
                   processed, output>>

\* variant: the appends are not under `if check`
AppendRow_unguarded ==
    /\ UNCHANGED dbvars
    /\ pc = "check"
    /\ analysed_mtx' = pae_mtx
    /\ calls' = calls \cup {"pdb_analyser"}
    /\ good_jobs' = Append(good_jobs, job)
    /\ iptm_ptm' = Append(iptm_ptm, iptm_ptm_score)
    /\ iptm' = Append(iptm, iptm_score)
    /\ mpDockq_scores' = Append(mpDockq_scores, mpDockq_score)
    /\ average_interface_paes' = Append(average_interface_paes, "avg_pae")
    /\ average_interface_plddts' = Append(average_interface_plddts, "avg_plddt")
    /\ pc' = "done"
    /\ UNCHANGED <<cutoff, njobs, job, exc, count, locals, artifacts, pae_source,
                   pae_loaded, formulas, scored, processed, output>>

\* lines 193-200 with check true: the interface averages, then the six appends
AppendRow ==
    /\ UNCHANGED dbvars
    /\ pc = "check"
    /\ check
    /\ analysed_mtx' = pae_mtx
    /\ calls' = calls \cup {"pdb_analyser"}
    /\ good_jobs' = Append(good_jobs, job)
    /\ iptm_ptm' = Append(iptm_ptm, iptm_ptm_score)
    /\ iptm' = Append(iptm, iptm_score)
    /\ mpDockq_scores' = Append(mpDockq_scores, mpDockq_score)
    /\ average_interface_paes' = Append(average_interface_paes, "avg_pae")
    /\ average_interface_plddts' = Append(average_interface_plddts, "avg_plddt")
    /\ pc' = "done"
    /\ UNCHANGED <<cutoff, njobs, job, exc, count, locals, artifacts, pae_source,
                   pae_loaded, formulas, scored, processed, output>>

\* line 193 with check false
RejectJob ==
    /\ UNCHANGED dbvars
    /\ pc = "check"
    /\ ~check
    /\ pc' = "done"
    /\ UNCHANGED <<cutoff, njobs, job, exc, accs, count, locals, jobhist,
                   processed, output>>

\* lines 201-202: the iteration ends
JobDone ==
    /\ UNCHANGED dbvars
    /\ pc = "done"
    /\ processed' = Append(processed,
           [job |-> job,
            status |-> IF "pdb_analyser" \in calls THEN "REPORTED" ELSE "NOROW",
            check |-> check])
    /\ pc' = "loop"
    /\ ClearJob
    /\ UNCHANGED <<cutoff, njobs, job, exc, accs, count, output>>

\* lines 203-226: after the loop
Finish ==
    /\ UNCHANGED dbvars
    /\ pc = "loop"
    /\ job = njobs
    /\ output' = IF Len(good_jobs) > 0 THEN "output.csv" ELSE "notice"
    /\ pc' = "exit"
    /\ UNCHANGED <<cutoff, njobs, job, exc, accs, count, locals, jobhist, processed>>

Next ==
    \/ NextJob
    \/ ConstructAnalyser
    \/ ReadRanking
    \/ ObtainPaeAndIptm
    \/ ObtainSeqLengths
    \/ ExamineInterPae
    \/ ObtainMpdockq
    \/ AppendRow
    \/ RejectJob
    \/ JobDone
    \/ Finish

Spec == Init /\ [][Next]_vars

TypeOK ==
    /\ pc \in {"loop", "ctor", "ranking", "pae", "seqlen", "examine",
               "mpdockq", "check", "done", "exit", "aborted", "idle"}
    /\ job \in 0..njobs
    /\ count \in 0..njobs

\* ---- create_custom_template_db.py --------------------------------------
\* codes and chains of the templates, and the file a code is written to
\* (line 190: mmcif_dir / f"{code}.cif")
Codes  == {"1abc", "2xyz"}
Chains == {"A", "B"}
CifName(code) == IF code = "1abc" THEN "1abc.cif" ELSE "2xyz.cif"

PairsOf(S, n) == UNION { [1..m -> S] : m \in 0..n }
TemplatePairs == [code : Codes, chain : Chains]
\* entries an mmcif_files directory may hold before the run
OldFileNames == {CifName(c) : c \in Codes} \cup {"obsolete.dat"}

\* lines 57-66: the directory after the call
create_dir_and_remove_files(dir, files_to_remove) ==
    IF ~dir.exists
    THEN [exists |-> TRUE, files |-> {}]
    ELSE [exists |-> TRUE, files |-> dir.files \ files_to_remove]

\* lines 79-82: os.listdir(pdb_mmcif_dir), or [] without the directory
FilesToRemove(dir) == IF dir.exists THEN dir.files ELSE {}

\* out_path before the run: empty, or holding the database of an earlier run
InitDb ==
    /\ cutoff = DefaultCutoff
    /\ njobs = 0
    /\ job = 0
    /\ pc = "idle"
    /\ exc = NoExc
    /\ good_jobs = <<>> /\ iptm_ptm = <<>> /\ iptm = <<>>
    /\ mpDockq_scores = <<>>
    /\ average_interface_paes = <<>> /\ average_interface_plddts = <<>>
    /\ count = 0
    /\ ranking_exists = FALSE
    /\ pdb_exists = FALSE
    /\ ranking_iptm = "absent"
    /\ iptm_ptm_score = "unset"
    /\ pae_mtx = NoMtx
    /\ iptm_score = "unset"
    /\ seq_lengths = <<>>
    /\ check = FALSE
    /\ mpDockq_score = "unset"
    /\ artifacts = NoArtifacts
    /\ pae_source = "none"
    /\ pae_loaded = NoMtx
    /\ analysed_mtx = NoMtx
    /\ calls = {}
    /\ formulas = {}
    /\ scored = NoScored
    /\ processed = <<>>
    /\ output = "none"
    /\ db_pc = "start"
    /\ pairs \in PairsOf(TemplatePairs, MaxPairs)
    /\ ndone = 0
    /\ \/ /\ pdb_mmcif_dir = NoDir /\ mmcif_dir = NoDir
          /\ seqres_dir = NoDir /\ templates_dir = NoDir
          /\ pdb_seqres = <<>>
       \/ /\ pdb_mmcif_dir = [exists |-> TRUE, files |-> {"mmcif_files", "obsolete.dat"}]
          /\ \E old \in SUBSET OldFileNames : mmcif_dir = [exists |-> TRUE, files |-> old]
          /\ seqres_dir = [exists |-> TRUE, files |-> {"pdb_seqres.txt"}]
          /\ templates_dir = [exists |-> TRUE, files |-> {}]
          /\ pdb_seqres \in PairsOf(TemplatePairs, MaxOldRecords)
    /\ db_before = [files |-> mmcif_dir.files, records |-> pdb_seqres]

\* lines 145 and 69-90: create_tree
CreateTree ==
    /\ db_pc = "start"
    /\ LET files_to_remove == FilesToRemove(pdb_mmcif_dir)
           new_mmcif == create_dir_and_remove_files(mmcif_dir, files_to_remove)
           new_seqres == create_dir_and_remove_files(seqres_dir, {"pdb_seqres.txt"})
       IN  /\ mmcif_dir' = new_mmcif
           /\ templates_dir' = create_dir_and_remove_files(templates_dir, {})
           \* mkdir(parents=True) made pdb_mmcif; line 87 made obsolete.dat
           /\ pdb_mmcif_dir' = [exists |-> TRUE,
                                files |-> pdb_mmcif_dir.files
                                            \cup {"mmcif_files", "obsolete.dat"}]
           /\ seqres_dir' = new_seqres
           /\ pdb_seqres' = IF "pdb_seqres.txt" \in new_seqres.files
                            THEN pdb_seqres ELSE <<>>
    /\ db_pc' = "loop"
    /\ UNCHANGED <<mainvars, pairs, ndone, db_before>>

\* lines 147-174 and 24-40: the template is copied, its SEQRES record is
\* appended to pdb_seqres.txt (opened with 'a')
SaveSeqres ==
    /\ db_pc = "loop"
    /\ ndone < Len(pairs)
    /\ LET p == pairs[ndone + 1]
       IN  /\ templates_dir' = [templates_dir EXCEPT
                                   !.files = @ \cup {CifName(p.code)}]
           /\ pdb_seqres' = Append(pdb_seqres, p)
           /\ seqres_dir' = [seqres_dir EXCEPT !.files = @ \cup {"pdb_seqres.txt"}]
    /\ db_pc' = "write"
    /\ UNCHANGED <<mainvars, pairs, ndone, pdb_mmcif_dir, mmcif_dir, db_before>>

\* lines 176-195: the filtered chain is written to mmcif_dir/<code>.cif
\* (opened with 'w')
WriteMmcif ==
    /\ db_pc = "write"
    /\ LET p == pairs[ndone + 1]
       IN  mmcif_dir' = [mmcif_dir EXCEPT !.files = @ \cup {CifName(p.code)}]
    /\ ndone' = ndone + 1
    /\ db_pc' = "loop"
    /\ UNCHANGED <<mainvars, pairs, pdb_mmcif_dir, seqres_dir, templates_dir,
                   pdb_seqres, db_before>>

\* the loop of line 147 is exhausted: create_db returns
CreateDbReturn ==
    /\ db_pc = "loop"
    /\ ndone = Len(pairs)
    /\ db_pc' = "done"
    /\ UNCHANGED <<mainvars, pairs, ndone, pdb_mmcif_dir, mmcif_dir, seqres_dir,
                   templates_dir, pdb_seqres, db_before>>

NextDb ==
    \/ CreateTree
    \/ SaveSeqres
    \/ WriteMmcif
    \/ CreateDbReturn

SpecDb == InitDb /\ [][NextDb]_vars

\* ---- properties ---------------------------------------------------------
Invoked(f) == f \in calls
Aborted    == pc = "aborted"
Examined   == Invoked("examine_inter_pae")
Scored     == mpDockq_score # "unset"
Last(s)    == s[Len(s)]

\* index of the chain that holds residue r, for chain lengths lens
RECURSIVE ChainOf(_, _)
ChainOf(lens, r) ==
    IF lens = <<>> THEN 0
    ELSE IF r <= Head(lens) THEN 1
    ELSE LET k == ChainOf(Tail(lens), r - Head(lens))
         IN  IF k = 0 THEN 0 ELSE k + 1

InterChain(lens, r, c) == ChainOf(lens, r) # ChainOf(lens, c)

HasLowInterChainCell(m, lens, cut) ==
    \E r \in DOMAIN m : \E c \in DOMAIN m[r] :
        InterChain(lens, r, c) /\ m[r][c] < cut

IsPrefix(s, t) == Len(s) <= Len(t) /\ SubSeq(t, 1, Len(s)) = s

\* C1: a job whose ranked_0.pdb is absent, or whose three error-matrix
\* artifacts are all absent, is only skipped: no exception ends main.
MissingArtifact ==
    \/ Invoked("obtain_seq_lengths") /\ ~pdb_exists
    \/ /\ Invoked("obtain_pae_and_iptm") /\ ~Invoked("obtain_seq_lengths")
       /\ artifacts = NoArtifacts
C1_FailureStaysInJob == MissingArtifact => ~Aborted

\* C2: a job directory without ranking_debug.json is skipped in one step:
\* no loader is ever invoked for a job without the file, and the step that
\* takes such a job adds no row, raises nothing and leaves main at the head
\* of the loop, ready for the next job.
C2_NoRankingSkips ==
    /\ [](calls # {} => ranking_exists)
    /\ [][(pc = "loop" /\ job' = job + 1 /\ ~ranking_exists')
            => /\ pc' = "loop"
               /\ calls' = {}
               /\ accs' = accs
               /\ exc' = NoExc
               /\ Last(processed').job = job' /\ Last(processed').status = "SKIPPED"]_vars
C2_Witness ==
    /\ Len(processed) = 2
    /\ processed[1].status = "SKIPPED"
    /\ processed[2].status = "REPORTED"
    /\ good_jobs = <<2>>

\* C3: for chain lengths that sum to the matrix dimension, the flag returned
\* by examine_inter_pae is true exactly when some inter-chain cell of the
\* matrix it was given is strictly below the cutoff.
C3_CheckIffLowInterChain ==
    (Examined /\ SumSeq(seq_lengths) = Len(pae_loaded))
        => (check <=> HasLowInterChainCell(pae_loaded, seq_lengths, cutoff))

\* C4: for a single-chain model examine_inter_pae returns false, whatever
\* the matrix and the cutoff.
C4_SingleChainFalse ==
    (Examined /\ Len(seq_lengths) = 1 /\ seq_lengths[1] = Len(pae_loaded))
        => ~check

\* C5: after examine_inter_pae the caller's matrix is the matrix that was
\* loaded from the artifact, and that is what pdb_analyser is given.
C5_CallerMatrixUnchanged ==
    /\ Examined => pae_mtx = pae_loaded
    /\ Invoked("pdb_analyser") => analysed_mtx = pae_loaded

\* C6: once obtain_mpdockq has returned, the multimeric formula ran iff the
\* composite score is defined and there are more than two chains, the
\* two-chain formula ran iff it is defined and there are exactly two, and
\* the two formulas did not both run.
C6_OneFormulaByChainCount ==
    Scored =>
        /\ ("calculate_mpDockQ" \in formulas)
              <=> (scored.complex_score # "None" /\ scored.num_chains > 2)
        /\ ({"read_pdb_pdockq", "calc_pdockq"} \subseteq formulas)
              <=> (scored.complex_score # "None" /\ scored.num_chains = 2)
        /\ ("calc_pdockq" \in formulas) <=> ("read_pdb_pdockq" \in formulas)
        /\ ~("calculate_mpDockQ" \in formulas /\ "calc_pdockq" \in formulas)
        /\ (formulas = {}) <=> (mpDockq_score = "None")
C6_Witness ==
    /\ Scored /\ scored.num_chains = 3 /\ scored.complex_score # "None"
    /\ formulas = {"calculate_mpDockQ"}

\* C7: with an undefined composite score or fewer than two chains no formula
\* runs and the dock-quality value is the sentinel "None"; when the interface
\* check of such a job was true, its summary row carries that sentinel.
NoScore == scored.complex_score = "None" \/ scored.num_chains < 2
C7_SentinelWithoutScore ==
    (Scored /\ NoScore) =>
        /\ formulas = {}
        /\ mpDockq_score = "None"
        /\ (pc = "done" /\ check) =>
              /\ good_jobs # <<>>
              /\ Last(good_jobs) = job
              /\ Last(mpDockq_scores) = "None"
C7_Witness ==
    /\ pc = "done" /\ check
    /\ scored.num_chains = 3 /\ scored.complex_score = "None"
    /\ cutoff = DefaultCutoff
    /\ Last(good_jobs) = job /\ Last(mpDockq_scores) = "None"

\* C8: with at least one of the three artifacts present, obtain_pae_and_iptm
\* does not fail and the matrix comes from the first present artifact in the
\* order json, pkl, pkl.gz, with or without an iptm mapping in the ranking.
FirstPresent(a) ==
    IF a.json THEN "json" ELSE IF a.pkl THEN "pkl" ELSE IF a.gz THEN "pkl.gz"
    ELSE "none"
C8_FirstPresentArtifact ==
    (Invoked("obtain_pae_and_iptm") /\ artifacts # NoArtifacts)
        => /\ ~(Aborted /\ exc.in = "obtain_pae_and_iptm")
           /\ pae_source = FirstPresent(artifacts)

\* C9: obtain_mpdockq is invoked only for a job whose interface check
\* returned true.
C9_ScoreOnlyAfterAccept == Invoked("obtain_mpdockq") => (Examined /\ check)

\* C10: the rows are the finished jobs whose check was true, in enumeration
\* order (with the current job last once its row is appended); the six
\* accumulators have one length; an accumulator only ever grows at its end.
RECURSIVE AcceptedJobs(_)
AcceptedJobs(p) ==
    IF p = <<>> THEN <<>>
    ELSE (IF Head(p).check THEN <<Head(p).job>> ELSE <<>>) \o AcceptedJobs(Tail(p))

RowsSoFar ==
    AcceptedJobs(processed)
        \o (IF pc = "done" /\ Examined /\ check THEN <<job>> ELSE <<>>)

C10_RowsAreAcceptedJobs ==
    /\ [](/\ good_jobs = RowsSoFar
          /\ \A a \in {iptm_ptm, iptm, mpDockq_scores,
                       average_interface_paes, average_interface_plddts} :
                 Len(a) = Len(good_jobs))
    /\ [][/\ IsPrefix(good_jobs, good_jobs')
          /\ IsPrefix(iptm_ptm, iptm_ptm')
          /\ IsPrefix(iptm, iptm')
          /\ IsPrefix(mpDockq_scores, mpDockq_scores')
          /\ IsPrefix(average_interface_paes, average_interface_paes')
          /\ IsPrefix(average_interface_plddts, average_interface_plddts')]_vars
C10_Witness ==
    /\ pc = "exit"
    /\ Len(processed) = 2
    /\ processed[1].status = "NOROW" /\ ~processed[1].check
    /\ processed[2].status = "REPORTED"
    /\ good_jobs = <<2>> /\ Len(mpDockq_scores) = 1

\* C11: a run of main ends with exactly one of the two outcomes: the notice
\* when no row was accepted, the table otherwise; and an outcome is produced
\* only once every job has been processed.  A run ends at the last statement
\* of main or with the exception that left it.
RunEnded ==
    \/ pc = "exit"
    \/ Aborted /\ exc.in \in {"obtain_pae_and_iptm", "obtain_seq_lengths"}
C11_OneOutcomeAtEnd ==
    /\ RunEnded => (IF good_jobs = <<>> THEN output = "notice"
                                        ELSE output = "output.csv")
    /\ output # "none" => (pc = "exit" /\ job = njobs /\ Len(processed) = njobs)

\* C12: for chain lengths that sum to the matrix dimension, masking the
\* masked matrix again gives the same matrix, and every inter-chain cell of
\* the masked matrix has the value it had in the matrix that was loaded.
C12_MaskIdempotentKeepsInterChain ==
    (Examined /\ SumSeq(seq_lengths) = Len(pae_loaded)) =>
        /\ MaskBlocks(pae_mtx, seq_lengths, 0) = pae_mtx
        /\ \A r \in DOMAIN pae_loaded : \A c \in DOMAIN pae_loaded[r] :
              InterChain(seq_lengths, r, c) => pae_mtx[r][c] = pae_loaded[r][c]
C12_Witness ==
    /\ Examined /\ seq_lengths = <<1, 2>>
    /\ pae_loaded[1][3] \in LowValues /\ pae_mtx[1][3] = pae_loaded[1][3]
    /\ pae_mtx[2][3] = MaskValue /\ pae_mtx[1][1] = MaskValue

\* C13: a job whose ranking file has an iptm mapping is carried past the
\* reading of the combined score, with or without an iptm+ptm mapping: no
\* exception is raised by main's own reading of the ranking data.
C13_IptmOnlyRankingAccepted ==
    (Invoked("PDBAnalyser") /\ ranking_iptm # "absent")
        => ~(Aborted /\ exc.in = "main")

\* C14: on an output directory that holds a database, create_tree leaves
\* no earlier file in pdb_mmcif/mmcif_files and no earlier record in
\* pdb_seqres.txt, and when create_db returns the database holds one mmCIF
\* file and one SEQRES record per template/chain pair, in the order of the
\* pairs.
C14_ExistingDbOverwritten ==
    /\ (db_pc = "loop" /\ ndone = 0) =>
          /\ mmcif_dir.files \cap db_before.files = {}
          /\ pdb_seqres = <<>>
    /\ db_pc = "done" =>
          /\ pdb_seqres = pairs
          /\ mmcif_dir.files = {CifName(pairs[i].code) : i \in 1..Len(pairs)}
          /\ Cardinality(mmcif_dir.files) = Len(pairs)
====
